---- MODULE Spec2Model ----
(***************************************************************************)
(* Face verification lab (02_labs/lab_9.ipynb): dataset indexer, pair      *)
(* sampler, batch generator, training callbacks and retrieval.             *)
(*                                                                         *)
(* Strings are sequences of code points, Python lists are sequences        *)
(* (list index i is sequence index i+1), Python dicts are sequences of     *)
(* <<key, value>> items in insertion order.                                *)
(***************************************************************************)
EXTENDS Integers, Sequences, FiniteSets, TLC

VARIABLES
    \* the download / extract cell: the file FILENAME ("absent", "partial" or
    \* "complete"), whether the directory "lfw" exists and how many members
    \* of the archive are in it, where the cell is, how often it was started,
    \* what this run did, and the files as they were when this run started
    archive, lfw_exists, lfw_members, setup, runs, did_download, did_extract,
    archive_before, lfw_before, members_before,
    \* the filesystem under PATH and the notebook's progress through its cells
    fs, USE_SUBSET, cell,
    \* cell 5
    dirs, name_to_classid, classid_to_name, num_classes,
    \* cell 7
    img_paths, all_images_path, path_to_id, id_to_path,
    \* cell 10
    classid_to_ids, id_to_classid,
    \* cell 25: the image array
    all_imgs,
    \* the last call of a pair builder: its name, arguments, the identities
    \* random.sample drew, and what it returned or raised
    fn, arg_classid, arg_classes, arg_max_num, drawn, raised, ret,
    \* generate_data_pairs: where it is, its loop variable and locals, and the
    \* arrays X1, X2, Y it returned
    gdp, class_id, all_input_1, all_input_2, all_labels, X1, X2, Y,
    \* the Generator object gen (None until built), and the last call on it:
    \* which method, its batch_index, and what it returned
    gen, gcall, batch_index, out_len, out_imgs1, out_imgs2, out_targets,
    \* model.fit: where it is, the epochs completed, the last epoch's
    \* val_accuracy_sim, model.stop_training
    fit, epoch, val_accuracy_sim, stop_training,
    \* best_model_cb: its monitor_op and best value, and the file
    \* "siamese_checkpoint" (the epoch whose model it holds, 0 for no file, and
    \* that model's accuracy)
    mc_op, mc_best, checkpoint_epoch, checkpoint_acc,
    \* early_stopping_cb: the rule its mode 'auto' is resolved by, its
    \* monitor_op, its best value and its wait counter
    es_auto, es_op, es_best, es_wait,
    \* the epoch of the model that load_model returned (0 before cell 51)
    loaded_epoch,
    \* history of the run: the highest val_accuracy_sim so far, the first
    \* epoch that reached it, and how many epochs have passed since
    hist_max, hist_best_epoch, hist_stale,
    \* retrieval: the normalized embedding table emb, and the last call of
    \* most_sim: which stored image the query is, its arguments x and topn, and
    \* the list it returned
    emb, sim, query_id, sim_x, sim_topn, sim_ret

setupVars == <<archive, lfw_exists, lfw_members, setup, runs, did_download,
               did_extract, archive_before, lfw_before, members_before>>

indexVars == <<fs, USE_SUBSET, cell, dirs, name_to_classid, classid_to_name,
               num_classes, img_paths, all_images_path, path_to_id, id_to_path,
               classid_to_ids, id_to_classid, all_imgs>>

callVars == <<fn, arg_classid, arg_classes, arg_max_num, drawn, raised, ret>>

dataVars == <<gdp, class_id, all_input_1, all_input_2, all_labels, X1, X2, Y>>

genVars == <<gen, gcall, batch_index, out_len, out_imgs1, out_imgs2,
             out_targets>>

trainVars == <<fit, epoch, val_accuracy_sim, stop_training, mc_op, mc_best,
               checkpoint_epoch, checkpoint_acc, es_auto, es_op, es_best,
               es_wait, loaded_epoch, hist_max, hist_best_epoch, hist_stale>>

simVars == <<emb, sim, query_id, sim_x, sim_topn, sim_ret>>

vars == <<setupVars, indexVars, callVars, dataVars, genVars, trainVars, simVars>>

\* what the steps of one part of the notebook leave alone
exceptIndex == <<setupVars, callVars, dataVars, genVars, trainVars, simVars>>
exceptCall == <<setupVars, indexVars, dataVars, genVars, trainVars, simVars>>
exceptData == <<setupVars, indexVars, callVars, genVars, trainVars, simVars>>
exceptGen == <<setupVars, indexVars, callVars, dataVars, trainVars, simVars>>
exceptTrain == <<setupVars, indexVars, callVars, dataVars, genVars, simVars>>
exceptSim == <<setupVars, indexVars, callVars, dataVars, genVars, trainVars>>
exceptSetup == <<indexVars, callVars, dataVars, genVars, trainVars, simVars>>

-----------------------------------------------------------------------------
(* Python built-ins *)

Min(a, b) == IF a <= b THEN a ELSE b
Max(a, b) == IF a >= b THEN a ELSE b

Range(s) == {s[i] : i \in DOMAIN s}

\* list(range(n))
PyRange(n) == [i \in 1..Max(n, 0) |-> i - 1]

\* lst[:n], n of either sign
SliceTo(lst, n) ==
    IF n >= 0 THEN SubSeq(lst, 1, Min(n, Len(lst)))
              ELSE SubSeq(lst, 1, Max(Len(lst) + n, 0))

\* lst[lo:hi] for 0 <= lo <= hi
Slice(lst, lo, hi) == SubSeq(lst, Min(lo, Len(lst)) + 1, Min(hi, Len(lst)))

\* str < str: code point by code point, a proper prefix first
RECURSIVE StrLess(_, _)
StrLess(a, b) ==
    IF b = <<>> THEN FALSE
    ELSE IF a = <<>> THEN TRUE
    ELSE IF Head(a) # Head(b) THEN Head(a) < Head(b)
    ELSE StrLess(Tail(a), Tail(b))

\* sorted(S) for a collection S of distinct strings
RECURSIVE Sorted(_)
Sorted(S) ==
    IF S = {} THEN <<>>
    ELSE LET m == CHOOSE x \in S : \A y \in S \ {x} : StrLess(x, y)
         IN  <<m>> \o Sorted(S \ {m})

\* the sum of a list of lists
RECURSIVE Concat(_)
Concat(lists) ==
    IF lists = <<>> THEN <<>> ELSE Head(lists) \o Concat(Tail(lists))

\* enumerate(lst)
Enumerate(lst) == [i \in DOMAIN lst |-> <<i - 1, lst[i]>>]

(* dict *)
DictKeys(d) == {d[i][1] : i \in DOMAIN d}
DictValues(d) == [i \in DOMAIN d |-> d[i][2]]
DictGet(d, k) == d[CHOOSE i \in DOMAIN d : d[i][1] = k][2]

\* d[k] = v: an existing key keeps its place, a new key goes last
DictPut(d, k, v) ==
    IF k \in DictKeys(d)
    THEN [i \in DOMAIN d |-> IF d[i][1] = k THEN <<k, v>> ELSE d[i]]
    ELSE Append(d, <<k, v>>)

\* {k: v for k, v in items}
RECURSIVE DictOf(_)
DictOf(items) ==
    IF items = <<>> THEN <<>>
    ELSE LET n == Len(items)
         IN  DictPut(DictOf(SubSeq(items, 1, n - 1)), items[n][1], items[n][2])

\* {v: k for k, v in d.items()}
DictInvert(d) == DictOf([i \in DOMAIN d |-> <<d[i][2], d[i][1]>>])

\* {v: k for k, v in enumerate(lst)}
DictIndex(lst) == DictOf([i \in DOMAIN lst |-> <<lst[i], i - 1>>])

-----------------------------------------------------------------------------
(* The dataset directory *)

\* "lfw/lfw-deepfunneled/"
PATH == <<108, 102, 119, 47, 108, 102, 119, 45, 100, 101, 101, 112, 102,
          117, 110, 110, 101, 108, 101, 100, 47>>

\* "/"
Slash == 47

\* how many identities USE_SUBSET keeps: the 500 of dirs[:500], scaled down
\* to the directory universe below so that the cut does happen
SubsetSize == 3

\* identity directories and image files that may exist ("a", "aa", "ab", "b")
DirNames == {<<97>>, <<97, 97>>, <<97, 98>>, <<98>>}
FileNames == {<<97>>, <<97, 98>>, <<98>>}

\* a directory tree: identity directory -> the files in it
Trees == UNION {[D -> SUBSET FileNames] : D \in SUBSET DirNames}

\* os.listdir(PATH), os.listdir(PATH + subfolder): names in no particular order
ListRoot(tree) == DOMAIN tree
ListSub(tree, subfolder) == tree[subfolder]

\* PATH + subfolder + "/" + img
ImgPathNoSlash(subfolder, img) == PATH \o subfolder \o img
ImgPath(subfolder, img) == PATH \o subfolder \o <<Slash>> \o img

-----------------------------------------------------------------------------
(* Cell 5: identities *)

Dirs(tree, subset) ==
    LET all == Sorted(ListRoot(tree))
    IN  IF subset THEN SliceTo(all, SubsetSize) ELSE all

NameToClassid(ds) == DictOf([i \in DOMAIN ds |-> <<ds[i], i - 1>>])
ClassidToName(n2c) == DictInvert(n2c)

(* Cell 7: images *)

ImgPaths(tree, n2c) ==
    DictOf([i \in DOMAIN n2c |->
        LET subfolder == n2c[i][1]
            c == n2c[i][2]
            imgs == Sorted(ListSub(tree, subfolder))
        IN  <<c, [j \in DOMAIN imgs |-> ImgPath(subfolder, imgs[j])]>>])

AllImagesPath(paths) == Concat(DictValues(paths))
PathToId(all) == DictIndex(all)
IdToPath(p2i) == DictInvert(p2i)

(* Cell 10: membership *)

ClassidToIds(paths, p2i) ==
    DictOf([i \in DOMAIN paths |->
        <<paths[i][1],
          [j \in DOMAIN paths[i][2] |-> DictGet(p2i, paths[i][2][j])]>>])

IdToClassidNext(c2i) ==
    DictOf(Concat([i \in DOMAIN c2i |->
        [j \in DOMAIN c2i[i][2] |-> <<c2i[i][2][j], (c2i[i][1] + 1) % Len(c2i)>>]]))
IdToClassid(c2i) ==
    DictOf(Concat([i \in DOMAIN c2i |->
        [j \in DOMAIN c2i[i][2] |-> <<c2i[i][2][j], c2i[i][1]>>]]))

(* Cells 24, 25: the image array *)

\* imread(path): the decoded pixels of the file at path, 250 x 250
Imread(path) == [pixels_of |-> path, shape |-> <<250, 250>>]

\* resize100(img): resized to 100 x 100, then the crop [20:80, 20:80]
Resize100(img) == [pixels_of |-> img.pixels_of, shape |-> <<80 - 20, 80 - 20>>]

\* open_all_images(id_to_path): one row per value of id_to_path, in the
\* order of the dict; np.vstack of no rows raises ValueError
OpenAllImagesRaises(i2p) == i2p = <<>>
OpenAllImagesBackwards(i2p) ==
    LET paths == DictValues(i2p)
    IN  [i \in DOMAIN paths |-> Resize100(Imread(paths[Len(paths) + 1 - i]))]
open_all_images(i2p) ==
    LET paths == DictValues(i2p)
    IN  [i \in DOMAIN paths |-> Resize100(Imread(paths[i]))]

(* Cell 53: the tables and the image array built again *)

RebuiltAllImagesPathBackwards(paths) ==
    LET all == Concat(DictValues(paths))
    IN  [i \in DOMAIN all |-> all[Len(all) + 1 - i]]
RebuiltAllImagesPath(paths) == Concat(DictValues(paths))

-----------------------------------------------------------------------------
(* The indexing cells as steps *)

None == <<"None">>

\* no pair builder has been called yet
NoCall ==
    /\ fn = "None" /\ arg_classid = 0 /\ arg_classes = <<>>
    /\ arg_max_num = 0 /\ drawn = <<>> /\ raised = "None" /\ ret = <<>>

\* the name gen before cell 36 binds it to an object
Unbound == [unbound |-> TRUE]

\* no Generator has been built yet
NoGen ==
    /\ gen = Unbound /\ gcall = "None" /\ batch_index = 0 /\ out_len = 0
    /\ out_imgs1 = <<>> /\ out_imgs2 = <<>> /\ out_targets = <<>>

\* no embedding has been computed yet
NoSim ==
    /\ emb = <<>> /\ sim = "None" /\ query_id = 0 /\ sim_x = <<>>
    /\ sim_topn = 0 /\ sim_ret = <<>>

\* model.fit has not been called yet
NoTrain ==
    /\ fit = "idle" /\ epoch = 0 /\ val_accuracy_sim = 0
    /\ stop_training = FALSE
    /\ mc_op = "None" /\ mc_best = 0
    /\ checkpoint_epoch = 0 /\ checkpoint_acc = 0
    /\ es_auto = "None" /\ es_op = "None" /\ es_best = 0 /\ es_wait = 0
    /\ loaded_epoch = 0
    /\ hist_max = 0 /\ hist_best_epoch = 0 /\ hist_stale = 0

\* generate_data_pairs has not been called yet
NoData ==
    /\ gdp = "idle" /\ class_id = 0
    /\ all_input_1 = <<>> /\ all_input_2 = <<>> /\ all_labels = <<>>
    /\ X1 = <<>> /\ X2 = <<>> /\ Y = <<>>

\* how many members the archive has
NumMembers == 4

\* the download / extract cell has run once, on a machine without the files,
\* and completed
SetupRan ==
    /\ archive = "complete" /\ lfw_exists = TRUE /\ lfw_members = NumMembers
    /\ setup = "done" /\ runs = 1
    /\ did_download = TRUE /\ did_extract = TRUE
    /\ archive_before = "absent" /\ lfw_before = FALSE /\ members_before = 0

\* cell 5 has not run yet
NotIndexed(tree, subset) ==
    /\ fs = tree
    /\ USE_SUBSET = subset
    /\ cell = "start"
    /\ dirs = None /\ name_to_classid = None /\ classid_to_name = None
    /\ num_classes = None
    /\ img_paths = None /\ all_images_path = None
    /\ path_to_id = None /\ id_to_path = None
    /\ classid_to_ids = None /\ id_to_classid = None
    /\ all_imgs = None

IndexInit ==
    /\ \E tree \in Trees, subset \in BOOLEAN : NotIndexed(tree, subset)
    /\ NoCall
    /\ NoData
    /\ NoGen
    /\ NoTrain
    /\ NoSim
    /\ SetupRan

IndexClasses ==
    /\ cell = "start"
    /\ dirs' = Dirs(fs, USE_SUBSET)
    /\ name_to_classid' = NameToClassid(dirs')
    /\ classid_to_name' = ClassidToName(name_to_classid')
    /\ num_classes' = Len(name_to_classid')
    /\ cell' = "classes"
    /\ UNCHANGED <<fs, USE_SUBSET, img_paths, all_images_path, path_to_id,
                   id_to_path, classid_to_ids, id_to_classid, all_imgs,
                   exceptIndex>>

IndexImages ==
    /\ cell = "classes"
    /\ img_paths' = ImgPaths(fs, name_to_classid)
    /\ all_images_path' = AllImagesPath(img_paths')
    /\ path_to_id' = PathToId(all_images_path')
    /\ id_to_path' = IdToPath(path_to_id')
    /\ cell' = "images"
    /\ UNCHANGED <<fs, USE_SUBSET, dirs, name_to_classid, classid_to_name,
                   num_classes, classid_to_ids, id_to_classid, all_imgs,
                   exceptIndex>>

IndexMembers ==
    /\ cell = "images"
    /\ classid_to_ids' = ClassidToIds(img_paths, path_to_id)
    /\ id_to_classid' = IdToClassid(classid_to_ids')
    /\ cell' = "indexed"
    /\ UNCHANGED <<fs, USE_SUBSET, dirs, name_to_classid, classid_to_name,
                   num_classes, img_paths, all_images_path, path_to_id,
                   id_to_path, all_imgs,
                   exceptIndex>>

\* all_imgs = open_all_images(id_to_path)
LoadImages ==
    /\ cell = "indexed"
    /\ IF OpenAllImagesRaises(id_to_path)
          THEN cell' = "ValueError" /\ UNCHANGED all_imgs
          ELSE cell' = "loaded" /\ all_imgs' = open_all_images(id_to_path)
    /\ UNCHANGED <<fs, USE_SUBSET, dirs, name_to_classid, classid_to_name,
                   num_classes, img_paths, all_images_path, path_to_id,
                   id_to_path, classid_to_ids, id_to_classid, exceptIndex>>

\* cell 53: all_images_path, path_to_id, id_to_path and all_imgs again
RebuildTables ==
    /\ cell = "loaded"
    /\ all_images_path' = RebuiltAllImagesPath(img_paths)
    /\ path_to_id' = PathToId(all_images_path')
    /\ id_to_path' = IdToPath(path_to_id')
    /\ IF OpenAllImagesRaises(id_to_path')
          THEN cell' = "ValueError" /\ UNCHANGED all_imgs
          ELSE cell' = "rebuilt" /\ all_imgs' = open_all_images(id_to_path')
    /\ UNCHANGED <<fs, USE_SUBSET, dirs, name_to_classid, classid_to_name,
                   num_classes, img_paths, classid_to_ids, id_to_classid,
                   exceptIndex>>

IndexNext ==
    \/ IndexClasses
    \/ IndexImages
    \/ IndexMembers
    \/ LoadImages
    \/ RebuildTables

SpecIndex == IndexInit /\ [][IndexNext]_vars

\* the files of the indexed identities, as <<subfolder, img>>
IndexedFiles == {x \in DirNames \X FileNames :
                    x[1] \in Range(dirs) /\ x[2] \in fs[x[1]]}

\* C7: after indexing, identity ids are unique, image ids are unique (two
\* files never share an id, and there are as many ids as files), and
\* name_to_classid / classid_to_name and path_to_id / id_to_path are mutual
\* inverses with equally many entries.
C7_TablesAreInverse ==
    cell \in {"images", "indexed"} =>
        /\ \A n, m \in Range(dirs) :
               n # m => DictGet(name_to_classid, n) # DictGet(name_to_classid, m)
        /\ \A x, y \in IndexedFiles :
               x # y => DictGet(path_to_id, ImgPath(x[1], x[2]))
                          # DictGet(path_to_id, ImgPath(y[1], y[2]))
        /\ Len(path_to_id) = Cardinality(IndexedFiles)
        /\ \A n \in Range(dirs) :
               DictGet(classid_to_name, DictGet(name_to_classid, n)) = n
        /\ \A c \in DictKeys(classid_to_name) :
               DictGet(name_to_classid, DictGet(classid_to_name, c)) = c
        /\ \A i \in DOMAIN all_images_path :
               DictGet(id_to_path, DictGet(path_to_id, all_images_path[i]))
                   = all_images_path[i]
        /\ \A k \in DictKeys(id_to_path) :
               DictGet(path_to_id, DictGet(id_to_path, k)) = k
        /\ Len(name_to_classid) = Len(classid_to_name)
        /\ Len(path_to_id) = Len(id_to_path)

\* C16: the array open_all_images(id_to_path) returns has exactly one row
\* per image id, and row i is the decoded (resized, cropped) image of the
\* file id_to_path[i].
C16_ImageArrayById ==
    cell \in {"loaded", "rebuilt"} =>
        /\ Len(all_imgs) = Len(id_to_path)
        /\ DictKeys(id_to_path) = 0..(Len(all_imgs) - 1)
        /\ \A i \in DictKeys(id_to_path) :
               all_imgs[i + 1] = Resize100(Imread(DictGet(id_to_path, i)))

\* the array of two identities with two images each
C16_Witness ==
    /\ cell = "loaded"
    /\ Len(dirs) = 2 /\ Len(all_imgs) = 4
    /\ all_imgs[4].pixels_of = ImgPath(<<98>>, <<98>>)
    /\ all_imgs[4].shape = <<60, 60>>

\* the ids of classid_to_ids and id_to_classid denote images of that
\* identity in the tables and the image array as they are now
IdsDenoteTheirImages ==
    \A c \in DictKeys(classid_to_ids) :
        \A k \in DOMAIN DictGet(classid_to_ids, c) :
            LET i == DictGet(classid_to_ids, c)[k]
            IN  /\ DictGet(id_to_classid, i) = c
                /\ DictGet(id_to_path, i) = DictGet(img_paths, c)[k]
                /\ DictGet(path_to_id, DictGet(img_paths, c)[k]) = i
                /\ all_imgs[i + 1].pixels_of = DictGet(img_paths, c)[k]

\* C15: rebuilding path_to_id and id_to_path before retrieval, from the
\* unchanged img_paths, gives the same path-to-id assignment as the initial
\* indexing, so the ids of classid_to_ids and id_to_classid still denote the
\* same images in the rebuilt image array.
C15_IdsStableOnRebuild ==
    /\ [][cell' = "rebuilt" =>
            /\ path_to_id' = path_to_id
            /\ id_to_path' = id_to_path
            /\ all_imgs' = all_imgs]_vars
    /\ [](cell = "rebuilt" => IdsDenoteTheirImages)

\* rebuilt tables over three identities, the middle one with two images
C15_Witness ==
    /\ cell = "rebuilt"
    /\ Len(dirs) = 3
    /\ DictGet(classid_to_ids, 0) = <<0>>
    /\ DictGet(classid_to_ids, 1) = <<1, 2>>
    /\ DictGet(classid_to_ids, 2) = <<3>>

\* the identities that have image id i in their list
HoldersOf(i) == {c \in DictKeys(classid_to_ids) :
                    i \in Range(DictGet(classid_to_ids, c))}

\* C18: after indexing, the lists of classid_to_ids partition the image ids
\* 0..M-1 (every id is in the list of exactly one identity),
\* id_to_classid[i] = c iff i is in classid_to_ids[c], and the identity ids
\* are 0..K-1 in sorted order of identity name (of the first SubsetSize
\* names only when the subset option is on).
C18_IdsPartition ==
    cell = "indexed" =>
        LET M == Len(all_images_path)
            K == Len(dirs)
            names == ListRoot(fs)
        IN  /\ UNION {Range(DictGet(classid_to_ids, c)) :
                         c \in DictKeys(classid_to_ids)} = 0..(M - 1)
            /\ \A i \in 0..(M - 1) : Cardinality(HoldersOf(i)) = 1
            /\ \A c \in DictKeys(classid_to_ids) :
                   Cardinality(Range(DictGet(classid_to_ids, c)))
                       = Len(DictGet(classid_to_ids, c))
            /\ DictKeys(id_to_classid) = 0..(M - 1)
            /\ \A i \in 0..(M - 1) : \A c \in DictKeys(classid_to_ids) :
                   DictGet(id_to_classid, i) = c <=> c \in HoldersOf(i)
            /\ DictKeys(classid_to_name) = 0..(K - 1)
            /\ DictKeys(classid_to_ids) = 0..(K - 1)
            /\ num_classes = K
            /\ \A c, d \in 0..(K - 1) :
                   c < d => StrLess(DictGet(classid_to_name, c),
                                    DictGet(classid_to_name, d))
            /\ Range(dirs) \subseteq names
            /\ \A n \in Range(dirs) : \A m \in names \ Range(dirs) :
                   StrLess(n, m)
            /\ K = IF USE_SUBSET THEN Min(SubsetSize, Cardinality(names))
                                 ELSE Cardinality(names)

\* four identity directories cut to the first three, one of them without
\* images and one with two
C18_Witness ==
    /\ cell = "indexed" /\ USE_SUBSET
    /\ Cardinality(ListRoot(fs)) = 4 /\ Len(dirs) = 3
    /\ DictGet(classid_to_ids, 0) = <<>>
    /\ DictGet(classid_to_ids, 1) = <<0, 1>>
    /\ DictGet(classid_to_ids, 2) = <<2>>

\* a tree in which dropping the "/" would make two paths collide
\* ("a" + "ab" and "aa" + "b")
C7_Witness ==
    /\ cell = "indexed"
    /\ <<<<97>>, <<97, 98>>>> \in IndexedFiles
    /\ <<<<97, 97>>, <<98>>>> \in IndexedFiles
    /\ Len(id_to_path) >= 3

-----------------------------------------------------------------------------
(* Pair sampler (cells 17 and 18) *)

\* the default max_num of build_pos_pairs_for_id and of build_neg_pairs_for_id
PosDefaultMax == 70
NegDefaultMax == 3

\* the outcome of a call: the list it returned, or the exception it raised
Returned(lst) == [raised |-> "None", ret |-> lst]
Raise(exc) == [raised |-> exc, ret |-> <<>>]

\* list(itertools.combinations(imgs, 2)): positions i < j, in lexicographic order
Combinations2WithSelf(imgs) ==
    Concat([i \in DOMAIN imgs |->
        [k \in 1..(Len(imgs) - i + 1) |-> <<imgs[i], imgs[i + k - 1]>>]])
Combinations2(imgs) ==
    Concat([i \in DOMAIN imgs |->
        [k \in 1..(Len(imgs) - i) |-> <<imgs[i], imgs[i + k]>>]])

\* random.shuffle(lst): every order is possible
Shuffled(lst) ==
    {[i \in DOMAIN lst |-> lst[p[i]]] : p \in Permutations(DOMAIN lst)}

\* if len(imgs) == 1
PosEarlyReturnLE2(imgs) == Len(imgs) <= 2
PosEarlyReturn(imgs) == Len(imgs) = 1

\* return pos_pairs[:max_num]
PosReturnOneMore(pos_pairs, max_num) == SliceTo(pos_pairs, max_num + 1)
PosReturn(pos_pairs, max_num) == SliceTo(pos_pairs, max_num)

\* the lists build_pos_pairs_for_id(classid, max_num) can return
build_pos_pairs_for_id(classid, max_num) ==
    LET imgs == DictGet(classid_to_ids, classid)
    IN  IF PosEarlyReturn(imgs) THEN {Returned(<<>>)}
        ELSE {Returned(PosReturn(pos_pairs, max_num)) :
                 pos_pairs \in Shuffled(Combinations2(imgs))}

\* random.sample(population, k): k elements at distinct positions, in any
\* order; ValueError when k < 0 or k > len(population)
RECURSIVE SamplePositions(_, _)
SamplePositions(n, k) ==
    IF k = 0 THEN {<<>>}
    ELSE UNION {{Append(s, i) : i \in (1..n) \ Range(s)} :
                   s \in SamplePositions(n, k - 1)}
SampleRaisesOnlyNegative(population, k) == k < 0
SampleRaises(population, k) == k < 0 \/ k > Len(population)
Sample(population, k) ==
    {[i \in 1..k |-> population[s[i]]] :
        s \in SamplePositions(Len(population), k)}

\* random.sample(classes, max_num+1)
NegSampleSizeNoExtra(max_num) == max_num
NegSampleSize(max_num) == max_num + 1

\* lst.remove(x): the first occurrence
ListRemove(lst, x) ==
    LET i == CHOOSE i \in DOMAIN lst :
                 lst[i] = x /\ \A j \in 1..(i - 1) : lst[j] # x
    IN  SubSeq(lst, 1, i - 1) \o SubSeq(lst, i + 1, Len(lst))

\* if classid in neg_classes_ids: neg_classes_ids.remove(classid)
NegRemoveNever(neg_classes_ids, classid) == neg_classes_ids
NegRemove(neg_classes_ids, classid) ==
    IF classid \in Range(neg_classes_ids)
    THEN ListRemove(neg_classes_ids, classid)
    ELSE neg_classes_ids

\* lst[random.randint(0, len(lst) - 1)]: any element of lst; randint raises
\* ValueError on the empty range of an empty list
RandintRaises(lst) == lst = <<>>
RandomItem(lst) == Range(lst)

\* the for loop of build_neg_pairs_for_id: its outcomes after id2 = 0 .. n-1
\* (neg_pairs so far, or the exception that ended the loop)
RECURSIVE NegLoop(_, _, _)
NegLoop(imgs, neg_classes_ids, n) ==
    IF n = 0 THEN {Returned(<<>>)}
    ELSE LET before == NegLoop(imgs, neg_classes_ids, n - 1)
             ok == {o \in before : o.raised = "None"}
         IN  (before \ ok) \cup
             (IF ok = {} THEN {}
              ELSE IF RandintRaises(imgs) THEN {Raise("ValueError")}
              ELSE IF n > Len(neg_classes_ids) THEN {Raise("IndexError")}
              ELSE LET imgs2 == DictGet(classid_to_ids, neg_classes_ids[n])
                   IN  IF RandintRaises(imgs2) THEN {Raise("ValueError")}
                       ELSE {Returned(Append(o.ret, <<img1, img2>>)) :
                                o \in ok,
                                img1 \in RandomItem(imgs),
                                img2 \in RandomItem(imgs2)})

\* the outcomes of build_neg_pairs_for_id(classid, classes, max_num), each
\* with the identities random.sample drew
build_neg_pairs_for_id(classid, classes, max_num) ==
    LET imgs == DictGet(classid_to_ids, classid)
    IN  IF SampleRaises(classes, NegSampleSize(max_num))
        THEN {[drawn |-> <<>>, out |-> Raise("ValueError")]}
        ELSE UNION {
               {[drawn |-> sample, out |-> o] :
                   o \in NegLoop(imgs, NegRemove(sample, classid),
                                 Max(max_num, 0))} :
               sample \in Sample(classes, NegSampleSize(max_num))}

-----------------------------------------------------------------------------
(* Calls of the pair builders on an indexed dataset *)

\* the largest max_num passed explicitly, and the most images a dataset of
\* the pair-builder runs holds
MaxNum == 3
MaxImages == 6

RECURSIVE Sum(_)
Sum(lst) == IF lst = <<>> THEN 0 ELSE Head(lst) + Sum(Tail(lst))

\* the dataset with Len(counts) identities, identity i holding counts[i] images
CountTree(counts) ==
    LET ds == Sorted(DirNames)
        fl == Sorted(FileNames)
    IN  [d \in {ds[i] : i \in DOMAIN counts} |->
            LET i == CHOOSE i \in DOMAIN counts : ds[i] = d
            IN  {fl[j] : j \in 1..counts[i]}]

Shapes(maxImages) ==
    {c \in UNION {[1..k -> 0..Cardinality(FileNames)] :
                     k \in 0..Cardinality(DirNames)} : Sum(c) <= maxImages}

\* the state after cells 5, 7 and 10 have run on tree
Indexed(tree, subset) ==
    /\ fs = tree
    /\ USE_SUBSET = subset
    /\ cell = "indexed"
    /\ dirs = Dirs(tree, subset)
    /\ name_to_classid = NameToClassid(dirs)
    /\ classid_to_name = ClassidToName(name_to_classid)
    /\ num_classes = Len(name_to_classid)
    /\ img_paths = ImgPaths(tree, name_to_classid)
    /\ all_images_path = AllImagesPath(img_paths)
    /\ path_to_id = PathToId(all_images_path)
    /\ id_to_path = IdToPath(path_to_id)
    /\ classid_to_ids = ClassidToIds(img_paths, path_to_id)
    /\ id_to_classid = IdToClassid(classid_to_ids)
    /\ all_imgs = None

PairsInit ==
    /\ \E c \in Shapes(MaxImages) : Indexed(CountTree(c), FALSE)
    /\ NoCall
    /\ NoData
    /\ NoGen
    /\ NoTrain
    /\ NoSim
    /\ SetupRan

\* the notebook is sequential: a builder is called when no call is under way
CallBuildPos ==
    /\ fn = "None"
    /\ \E classid \in DictKeys(classid_to_ids),
       max_num \in (-1..MaxNum) \cup {PosDefaultMax} :
        /\ fn' = "build_pos_pairs_for_id"
        /\ arg_classid' = classid
        /\ arg_classes' = <<>>
        /\ arg_max_num' = max_num
        /\ drawn' = <<>>
        /\ \E o \in build_pos_pairs_for_id(classid, max_num) :
              raised' = o.raised /\ ret' = o.ret
        /\ UNCHANGED exceptCall

\* classes is list(range(k)): all identities (as at every call in the
\* notebook) or the first k of them
CallBuildNeg ==
    /\ fn = "None"
    /\ \E classid \in DictKeys(classid_to_ids),
       k \in 0..num_classes,
       max_num \in -2..MaxNum :
        /\ fn' = "build_neg_pairs_for_id"
        /\ arg_classid' = classid
        /\ arg_classes' = PyRange(k)
        /\ arg_max_num' = max_num
        /\ \E o \in build_neg_pairs_for_id(classid, PyRange(k), max_num) :
              drawn' = o.drawn /\ raised' = o.out.raised /\ ret' = o.out.ret
        /\ UNCHANGED exceptCall

\* the calling cell has used the result
CallDone ==
    /\ fn # "None"
    /\ fn' = "None" /\ arg_classid' = 0 /\ arg_classes' = <<>>
    /\ arg_max_num' = 0 /\ drawn' = <<>> /\ raised' = "None" /\ ret' = <<>>
    /\ UNCHANGED exceptCall

PairsNext == CallBuildPos \/ CallBuildNeg \/ CallDone

SpecPairs == PairsInit /\ [][PairsNext]_vars

ImgsOf(classid) == DictGet(classid_to_ids, classid)
ClassOf(img) == DictGet(id_to_classid, img)

\* C1: for an identity with at least 2 images and max_num >= 0, every pair
\* build_pos_pairs_for_id returns is made of two image ids of that identity,
\* and at most max_num pairs are returned.
C1_PosPairsWithinIdentity ==
    (/\ fn = "build_pos_pairs_for_id"
     /\ Len(ImgsOf(arg_classid)) >= 2
     /\ arg_max_num >= 0)
    => /\ raised = "None"
       /\ \A i \in DOMAIN ret :
              /\ ret[i][1] \in Range(ImgsOf(arg_classid))
              /\ ret[i][2] \in Range(ImgsOf(arg_classid))
       /\ Len(ret) <= arg_max_num

\* the cap cuts the three pairs of a three-image identity down to two
C1_Witness ==
    /\ fn = "build_pos_pairs_for_id"
    /\ Len(ImgsOf(arg_classid)) = 3
    /\ arg_max_num = 2
    /\ Len(ret) = 2

\* the unordered pairs of a list of pairs, and of the elements of a list
UnorderedPairs(pairs) == {{pairs[i][1], pairs[i][2]} : i \in DOMAIN pairs}
AllUnorderedPairs(imgs) ==
    {{imgs[i], imgs[j]} : i, j \in DOMAIN imgs} \ {{imgs[i]} : i \in DOMAIN imgs}

\* C13: for an identity with n >= 2 images (and a count max_num >= 0)
\* build_pos_pairs_for_id returns exactly min(max_num, n*(n-1)/2) pairs, no
\* unordered pair twice and none of an image with itself; when
\* n*(n-1)/2 <= max_num they are all unordered pairs of the identity's ids.
C13_PosPairsExactCount ==
    (/\ fn = "build_pos_pairs_for_id"
     /\ Len(ImgsOf(arg_classid)) >= 2
     /\ arg_max_num >= 0)
    => LET n == Len(ImgsOf(arg_classid))
           total == (n * (n - 1)) \div 2
       IN  /\ raised = "None"
           /\ Len(ret) = Min(arg_max_num, total)
           /\ \A i \in DOMAIN ret : ret[i][1] # ret[i][2]
           /\ \A i, j \in DOMAIN ret :
                  i # j => {ret[i][1], ret[i][2]} # {ret[j][1], ret[j][2]}
           /\ total <= arg_max_num =>
                  UnorderedPairs(ret) = AllUnorderedPairs(ImgsOf(arg_classid))

\* the three pairs of a three-image identity under a cap of exactly three,
\* shuffled so that the first pair is the one without the first image
C13_Witness ==
    /\ fn = "build_pos_pairs_for_id"
    /\ Len(ImgsOf(arg_classid)) = 3
    /\ arg_max_num = 3
    /\ Len(ret) = 3
    /\ ret[1][1] # ImgsOf(arg_classid)[1]

\* 3 identities with 3, 1 and 2 images
Scenario312 ==
    /\ num_classes = 3
    /\ Len(ImgsOf(0)) = 3 /\ Len(ImgsOf(1)) = 1 /\ Len(ImgsOf(2)) = 2

\* C2: for an identity with exactly 1 image build_pos_pairs_for_id returns
\* the empty list whatever max_num is; with identities of 3, 1 and 2 images,
\* pairs come back for the first and the third identity only (and do come
\* back for these two whenever max_num >= 1).
C2_SingleImageNoPairs ==
    fn = "build_pos_pairs_for_id" =>
        /\ Len(ImgsOf(arg_classid)) = 1 => (raised = "None" /\ ret = <<>>)
        /\ Scenario312 =>
              /\ ret # <<>> => arg_classid \in {0, 2}
              /\ (arg_classid \in {0, 2} /\ arg_max_num >= 1) => ret # <<>>

C2_Witness ==
    /\ fn = "build_pos_pairs_for_id"
    /\ Scenario312
    /\ arg_classid = 1
    /\ arg_max_num = PosDefaultMax
    /\ ret = <<>>

\* C3: when classes (distinct identity ids) has at least max_num+1 elements,
\* every pair build_neg_pairs_for_id returns has its first image in classid
\* and its second image in another identity, whatever was sampled.
C3_NegPairsAcrossIdentities ==
    (/\ fn = "build_neg_pairs_for_id"
     /\ raised = "None"
     /\ Len(arg_classes) >= arg_max_num + 1)
    => \A i \in DOMAIN ret :
           /\ ClassOf(ret[i][1]) = arg_classid
           /\ ClassOf(ret[i][2]) # arg_classid

\* classid itself was drawn first, and two pairs came back
C3_Witness ==
    /\ fn = "build_neg_pairs_for_id"
    /\ raised = "None"
    /\ drawn # <<>> /\ drawn[1] = arg_classid
    /\ Len(ret) >= 2

\* C8: when classes has at least max_num+1 identities, each (like classid)
\* with at least one image, build_neg_pairs_for_id returns exactly max_num
\* pairs, whether or not classid was drawn (max_num >= 0).
C8_NegPairsCount ==
    (/\ fn = "build_neg_pairs_for_id"
     /\ arg_max_num >= 0
     /\ Len(arg_classes) >= arg_max_num + 1
     /\ \A c \in Range(arg_classes) \cup {arg_classid} : Len(ImgsOf(c)) >= 1)
    => /\ raised = "None"
       /\ Len(ret) = arg_max_num

\* 3 identities, max_num = 1, classid not among the 2 drawn: one pair
C8_Witness ==
    /\ fn = "build_neg_pairs_for_id"
    /\ num_classes = 3 /\ Len(arg_classes) = 3
    /\ arg_max_num = 1
    /\ Len(drawn) = 2 /\ arg_classid \notin Range(drawn)
    /\ raised = "None" /\ Len(ret) = 1

-----------------------------------------------------------------------------
(* generate_data_pairs (cell 28) *)

\* for pair in pairs: all_input_1.append(pair[0]); all_input_2.append(pair[1]);
\* all_labels.append(label)
AppendPairs(acc, pairs, label) ==
    [in1 |-> acc.in1 \o [i \in DOMAIN pairs |-> pairs[i][1]],
     in2 |-> acc.in2 \o [i \in DOMAIN pairs |-> pairs[i][2]],
     labels |-> acc.labels \o [i \in DOMAIN pairs |-> label]]

AppendPositiveAsZero(acc, positive_pairs) == AppendPairs(acc, positive_pairs, 0)
AppendPositive(acc, positive_pairs) == AppendPairs(acc, positive_pairs, 1)
AppendNegative(acc, negative_pairs) == AppendPairs(acc, negative_pairs, 0)

\* np.array(lst) of a list of ints: the same ints, in order
NpArray(lst) == lst

\* the datasets generate_data_pairs is run on, as images per identity
DataShapes == {<<>>, <<1>>, <<2, 1>>, <<1, 1, 1>>, <<3, 1, 2>>, <<1, 1, 1, 1>>, <<1, 0, 1, 1>>,
               <<2, 1, 1, 1>>, <<1, 1, 1, 2>>}

DataInit ==
    /\ \E c \in DataShapes : Indexed(CountTree(c), FALSE)
    /\ NoCall
    /\ NoData
    /\ NoGen
    /\ NoTrain
    /\ NoSim
    /\ SetupRan

GenerateStart ==
    /\ gdp = "idle"
    /\ gdp' = "loop"
    /\ class_id' = 0
    /\ all_input_1' = <<>> /\ all_input_2' = <<>> /\ all_labels' = <<>>
    /\ UNCHANGED <<X1, X2, Y, exceptData>>

\* one pass of: for class_id in range(num_classes)
GenerateLoop ==
    /\ gdp = "loop"
    /\ class_id < num_classes
    /\ \E pos \in build_pos_pairs_for_id(class_id, PosDefaultMax),
          neg \in build_neg_pairs_for_id(class_id, PyRange(num_classes),
                                         NegDefaultMax) :
          IF neg.out.raised # "None"
          THEN /\ gdp' = neg.out.raised
               /\ UNCHANGED <<class_id, all_input_1, all_input_2, all_labels>>
          ELSE LET acc == [in1 |-> all_input_1, in2 |-> all_input_2,
                           labels |-> all_labels]
                   new == AppendNegative(AppendPositive(acc, pos.ret),
                                         neg.out.ret)
               IN  /\ all_input_1' = new.in1
                   /\ all_input_2' = new.in2
                   /\ all_labels' = new.labels
                   /\ class_id' = class_id + 1
                   /\ gdp' = "loop"
    /\ UNCHANGED <<X1, X2, Y, exceptData>>

\* return np.array(all_input_1), np.array(all_input_2), np.array(all_labels)
GenerateReturn ==
    /\ gdp = "loop"
    /\ class_id = num_classes
    /\ X1' = NpArray(all_input_1)
    /\ X2' = NpArray(all_input_2)
    /\ Y' = NpArray(all_labels)
    /\ gdp' = "returned"
    /\ UNCHANGED <<class_id, all_input_1, all_input_2, all_labels, exceptData>>

DataNext == GenerateStart \/ GenerateLoop \/ GenerateReturn

SpecData == DataInit /\ [][DataNext]_vars

\* C6: at every index i of the arrays generate_data_pairs returns, Y[i] is 0
\* or 1, and Y[i] = 1 exactly when X1[i] and X2[i] are images of the same
\* identity; the three arrays are parallel. (The same holds of the lists
\* while they are built.)
C6_LabelIffSameIdentity ==
    /\ gdp = "returned" =>
          /\ Len(X1) = Len(Y) /\ Len(X2) = Len(Y)
          /\ \A i \in DOMAIN Y :
                /\ Y[i] \in {0, 1}
                /\ Y[i] = 1 <=> ClassOf(X1[i]) = ClassOf(X2[i])
    /\ gdp = "loop" =>
          \A i \in DOMAIN all_labels :
              /\ all_labels[i] \in {0, 1}
              /\ all_labels[i] = 1
                    <=> ClassOf(all_input_1[i]) = ClassOf(all_input_2[i])

\* returned arrays that hold a positive and a negative pair
C6_Witness ==
    /\ gdp = "returned"
    /\ \E i, j \in DOMAIN Y : Y[i] = 1 /\ Y[j] = 0

\* build_neg_pairs_for_id raises, returning no pairs, for every identity,
\* every list classes of fewer than max_num+1 identities and max_num >= 0
\* (a property of the indexed dataset, which generate_data_pairs leaves as it
\* is, so it is evaluated where generate_data_pairs starts)
NegFailsOnFewClasses ==
    gdp = "idle" =>
    \A classid \in 0..(num_classes - 1), k \in 0..num_classes, max_num \in 0..MaxNum :
        k < max_num + 1 =>
            /\ build_neg_pairs_for_id(classid, PyRange(k), max_num) # {}
            /\ \A o \in build_neg_pairs_for_id(classid, PyRange(k), max_num) :
                   o.out.raised = "ValueError" /\ o.out.ret = <<>>

\* generate_data_pairs has failed, or is about to, and has returned nothing
GenerateFails ==
    /\ gdp \in {"idle", "loop", "ValueError"}
    /\ gdp = "loop" => class_id = 0
    /\ X1 = <<>> /\ X2 = <<>> /\ Y = <<>>

\* C17 as claimed: build_neg_pairs_for_id fails, returning no pairs, whenever
\* classes has fewer than max_num+1 elements; so generate_data_pairs (default
\* max_num = 3) fails and returns no arrays for every dataset with fewer
\* than 4 identities.
C17_FailsBelowFourIdentities ==
    /\ NegFailsOnFewClasses
    /\ num_classes < 4 => GenerateFails

\* C17 as amended: the same for datasets of 1, 2 or 3 identities; with no
\* identity the loop body never runs and three empty arrays are returned.
C17_FailsOnOneToThreeIdentities ==
    /\ NegFailsOnFewClasses
    /\ num_classes \in 1..3 => GenerateFails
    /\ num_classes = 0 =>
          /\ gdp \in {"idle", "loop", "returned"}
          /\ X1 = <<>> /\ X2 = <<>> /\ Y = <<>>

\* the 3-identity scenario: the first pass of the loop raised
C17_Witness ==
    /\ Scenario312
    /\ gdp = "ValueError"
    /\ class_id = 0 /\ all_labels = <<>>

-----------------------------------------------------------------------------
(* Generator (cell 35) *)

\* the largest batch size and the most samples a Generator is built over
MaxBatch == 2
MaxSamples == 3

\* an image is one row of two pixels; all_imgs holds the images of ids 0, 1
AllImgs == <<<<10, 11>>, <<20, 21>>>>

\* imgs[ids]: the rows of imgs at the given ids, in the order of ids
GatherFirst(imgs, ids) == [i \in DOMAIN ids |-> imgs[ids[1] + 1]]
Gather(imgs, ids) == [i \in DOMAIN ids |-> imgs[ids[i] + 1]]

\* horizontal flip of an image
Flip(img) == [c \in DOMAIN img |-> img[Len(img) + 1 - c]]

\* ImageDataGenerator(horizontal_flip=True).flow(x, batch_size=b,
\* shuffle=False).next(): the first min(b, len(x)) images of x in order, each
\* flipped or not at random
RECURSIVE Augmented(_)
Augmented(x) ==
    IF x = <<>> THEN {<<>>}
    ELSE {<<h>> \o t : h \in {Head(x), Flip(Head(x))}, t \in Augmented(Tail(x))}
FlowNext(x, b) == Augmented(SubSeq(x, 1, Min(b, Len(x))))

\* Generator.__init__
GeneratorNew(x1, x2, y, batch_size, imgs) ==
    [batch_size |-> batch_size, X1 |-> x1, X2 |-> x2, Y |-> y,
     imgs |-> imgs, num_samples |-> Len(y)]

\* Generator.__len__
GenLenCeil(self) == (self.num_samples + self.batch_size - 1) \div self.batch_size
GenLen(self) == self.num_samples \div self.batch_size

\* Generator.__getitem__: the batches it can return
GenGetItem(self, i) ==
    LET low_index == i * self.batch_size
        high_index == (i + 1) * self.batch_size
        imgs1 == Gather(self.imgs, Slice(self.X1, low_index, high_index))
        imgs2 == Gather(self.imgs, Slice(self.X2, low_index, high_index))
        targets == Slice(self.Y, low_index, high_index)
    IN  {[imgs1 |-> a, imgs2 |-> b, targets |-> targets] :
            a \in FlowNext(imgs1, self.batch_size),
            b \in FlowNext(imgs2, self.batch_size)}

GenInit ==
    /\ NotIndexed(<<>>, TRUE)
    /\ NoCall
    /\ NoData
    /\ NoGen
    /\ NoTrain
    /\ NoSim
    /\ SetupRan

\* gen = Generator(X1_train, X2_train, Y_train, batch_size, all_imgs)
GenConstruct ==
    /\ gen = Unbound
    /\ \E n \in 0..MaxSamples, batch_size \in 1..MaxBatch :
       \E x1 \in [1..n -> 0..(Len(AllImgs) - 1)],
          x2 \in [1..n -> 0..(Len(AllImgs) - 1)],
          y \in [1..n -> {0, 1}] :
            gen' = GeneratorNew(x1, x2, y, batch_size, AllImgs)
    /\ UNCHANGED <<gcall, batch_index, out_len, out_imgs1, out_imgs2,
                   out_targets, exceptGen>>

\* len(gen)
GenCallLen ==
    /\ gen # Unbound /\ gcall = "None"
    /\ gcall' = "__len__"
    /\ out_len' = GenLen(gen)
    /\ UNCHANGED <<gen, batch_index, out_imgs1, out_imgs2, out_targets,
                   exceptGen>>

\* gen[i], for every batch index that starts inside the samples: the
\* batches 0 .. len(gen)-1 and, when batch_size does not divide the number of
\* samples, the partial batch after them
GenCallGetItem ==
    /\ gen # Unbound /\ gcall = "None"
    /\ \E i \in 0..MaxSamples :
          /\ i * gen.batch_size < gen.num_samples
          /\ gcall' = "__getitem__"
          /\ batch_index' = i
          /\ \E b \in GenGetItem(gen, i) :
                /\ out_imgs1' = b.imgs1
                /\ out_imgs2' = b.imgs2
                /\ out_targets' = b.targets
    /\ UNCHANGED <<gen, out_len, exceptGen>>

\* the caller has used the result
GenCallDone ==
    /\ gcall # "None"
    /\ gcall' = "None" /\ batch_index' = 0 /\ out_len' = 0
    /\ out_imgs1' = <<>> /\ out_imgs2' = <<>> /\ out_targets' = <<>>
    /\ UNCHANGED <<gen, exceptGen>>

GenNext == GenConstruct \/ GenCallLen \/ GenCallGetItem \/ GenCallDone

SpecGen == GenInit /\ [][GenNext]_vars

\* C4: for a Generator over N samples with batch size B >= 1, len(gen) is
\* floor(N / B), and for every batch index 0 <= i < len(gen) the left images,
\* the right images and the labels of gen[i] all have first dimension B.
C4_BatchCountAndSize ==
    /\ gcall = "__len__" =>
          /\ out_len * gen.batch_size <= gen.num_samples
          /\ (out_len + 1) * gen.batch_size > gen.num_samples
    /\ (gcall = "__getitem__" /\ batch_index < GenLen(gen)) =>
          /\ Len(out_imgs1) = gen.batch_size
          /\ Len(out_imgs2) = gen.batch_size
          /\ Len(out_targets) = gen.batch_size

\* 3 samples in batches of 2: the one full batch
C4_Witness ==
    /\ gcall = "__getitem__"
    /\ gen.batch_size = 2 /\ gen.num_samples = 3
    /\ batch_index = 0 /\ batch_index < GenLen(gen)
    /\ Len(out_imgs1) = 2 /\ Len(out_imgs2) = 2 /\ Len(out_targets) = 2

\* the sample positions i*B .. (i+1)*B-1 of batch i
PositionsOf(self, i) ==
    {i * self.batch_size + k : k \in 0..(self.batch_size - 1)}

\* an image as it is or flipped
AsIsOrFlipped(img) == {img, Flip(img)}

\* gen[i] for i < len(gen) is made of the samples at PositionsOf(gen, i), in
\* order, the same positions for left images, right images and labels
BatchIsItsSlice ==
    (gcall = "__getitem__" /\ batch_index < GenLen(gen)) =>
        LET B == gen.batch_size
            at(k) == batch_index * B + k
        IN  /\ Len(out_imgs1) = B /\ Len(out_imgs2) = B /\ Len(out_targets) = B
            /\ {at(k) - 1 : k \in 1..B} = PositionsOf(gen, batch_index)
            /\ \A k \in 1..B :
                  /\ out_targets[k] = gen.Y[at(k)]
                  /\ out_imgs1[k] \in AsIsOrFlipped(gen.imgs[gen.X1[at(k)] + 1])
                  /\ out_imgs2[k] \in AsIsOrFlipped(gen.imgs[gen.X2[at(k)] + 1])

\* batches of different indices share no position, and the last N mod B
\* positions are in no batch
BatchesAreDisjoint ==
    gen # Unbound =>
        LET N == gen.num_samples
            B == gen.batch_size
            batches == 0..(GenLen(gen) - 1)
        IN  /\ \A i, j \in batches :
                  i # j => PositionsOf(gen, i) \cap PositionsOf(gen, j) = {}
            /\ \A i \in batches : PositionsOf(gen, i) \subseteq 0..(N - 1)
            /\ \A p \in (N - (N % B))..(N - 1) :
                  \A i \in batches : p \notin PositionsOf(gen, i)

\* C14: for 0 <= i < len(gen), batch i is built from exactly the samples at
\* positions i*B .. (i+1)*B-1 of X1, X2 and Y, in order and with the same
\* positions for left ids, right ids and labels; batches of different indices
\* share no position and the last N mod B positions are in no batch; gen[i]
\* leaves X1, X2, Y and the image array unchanged.
C14_BatchIsSlice ==
    /\ [](BatchIsItsSlice /\ BatchesAreDisjoint)
    /\ [][gen # Unbound => gen' = gen]_vars

\* 3 samples in batches of 2: batch 0 is samples 0 and 1, the first left
\* image flipped, and sample 2 is in no batch
C14_Witness ==
    /\ gcall = "__getitem__"
    /\ gen.batch_size = 2 /\ gen.num_samples = 3 /\ batch_index = 0
    /\ gen.X1 = <<1, 0, 1>> /\ gen.X2 = <<0, 0, 1>> /\ gen.Y = <<0, 1, 1>>
    /\ out_targets = <<0, 1>>
    /\ out_imgs1 = <<Flip(AllImgs[2]), AllImgs[1]>>
    /\ out_imgs2 = <<AllImgs[1], AllImgs[1]>>

-----------------------------------------------------------------------------
(* Training with checkpointing and early stopping (cells 49, 50, 51) *)

\* model.fit(epochs=50), EarlyStopping(patience=5)
Epochs == 50
Patience == 5

\* val_accuracy_sim takes the levels 0 .. MaxAcc (MaxAcc is accuracy 1.0)
MaxAcc == 9

\* -np.Inf and np.Inf, below and above every level
NegInf == -1
PosInf == MaxAcc + 1

\* monitor='val_accuracy_sim'
Monitor == <<"v", "a", "l", "_", "a", "c", "c", "u", "r", "a", "c", "y", "_",
             "s", "i", "m">>

\* sub in s, s.startswith(sub), s.endswith(sub)
StrContains(s, sub) ==
    \E i \in 0..(Len(s) - Len(sub)) : SubSeq(s, i + 1, i + Len(sub)) = sub
StrStartsWith(s, sub) ==
    Len(sub) <= Len(s) /\ SubSeq(s, 1, Len(sub)) = sub
StrEndsWith(s, sub) ==
    Len(sub) <= Len(s) /\ SubSeq(s, Len(s) - Len(sub) + 1, Len(s)) = sub

\* ModelCheckpoint, mode left at 'auto': the monitored value is maximised
\* when 'acc' in monitor or monitor.startswith('fmeasure'), else minimised
McMode(monitor) ==
    IF \/ StrContains(monitor, <<"a", "c", "c">>)
       \/ StrStartsWith(monitor, <<"f", "m", "e", "a", "s", "u", "r", "e">>)
    THEN "max" ELSE "min"

\* EarlyStopping, mode left at 'auto'. The notebook pins no Keras release,
\* and Keras 2 resolves 'auto' in one of two ways depending on the release:
\*   "in":       maximise when 'acc' in monitor, else minimise
\*   "endswith": maximise when monitor ends with 'acc', 'accuracy' or 'auc',
\*               else minimise
EsAutoRules == {"in", "endswith"}
EsMode(rule, monitor) ==
    IF rule = "in"
    THEN IF StrContains(monitor, <<"a", "c", "c">>) THEN "max" ELSE "min"
    ELSE IF \/ StrEndsWith(monitor, <<"a", "c", "c">>)
            \/ StrEndsWith(monitor, <<"a", "c", "c", "u", "r", "a", "c", "y">>)
            \/ StrEndsWith(monitor, <<"a", "u", "c">>)
         THEN "max" ELSE "min"

\* monitor_op, np.greater for mode "max" and np.less for "min", and the best
\* value a callback starts from
MonitorOpOf(mode) == IF mode = "max" THEN "greater" ELSE "less"
MonitorOp(op, current, best) ==
    IF op = "greater" THEN current > best ELSE current < best
InitialBest(op) == IF op = "greater" THEN NegInf ELSE PosInf

\* ModelCheckpoint(save_best_only=True): whether the epoch's model is saved
McShouldSaveAlways(current, best) == TRUE
McShouldSave(current, best) == MonitorOp(mc_op, current, best)

\* EarlyStopping: whether the epoch improved, and whether training stops
EsImproved(current, best) == MonitorOp(es_op, current, best)
EsShouldStop(wait) == wait >= Patience

\* cell 49 has built the callbacks
TrainInit ==
    /\ NotIndexed(<<>>, TRUE)
    /\ NoCall /\ NoData /\ NoGen /\ NoSim
    /\ SetupRan
    /\ fit = "idle" /\ epoch = 0 /\ val_accuracy_sim = 0
    /\ stop_training = FALSE
    /\ mc_op = MonitorOpOf(McMode(Monitor))
    /\ mc_best = InitialBest(mc_op)
    /\ checkpoint_epoch = 0 /\ checkpoint_acc = 0
    /\ es_auto \in EsAutoRules
    /\ es_op = MonitorOpOf(EsMode(es_auto, Monitor))
    /\ es_best = 0 /\ es_wait = 0
    /\ loaded_epoch = 0
    /\ hist_max = NegInf /\ hist_best_epoch = 0 /\ hist_stale = 0

\* model.fit is called: on_train_begin
FitBegin ==
    /\ fit = "idle"
    /\ fit' = "running"
    /\ stop_training' = FALSE
    /\ es_wait' = 0
    /\ es_best' = InitialBest(es_op)
    /\ UNCHANGED <<epoch, val_accuracy_sim, mc_op, mc_best, checkpoint_epoch,
                   checkpoint_acc, es_auto, es_op, loaded_epoch, hist_max,
                   hist_best_epoch, hist_stale, exceptTrain>>

\* one epoch of model.fit: the epoch is trained and validated (any accuracy
\* level can come out), then on_epoch_end of best_model_cb and of
\* early_stopping_cb run in that order, then the loop ends if stop_training
\* is set or this was the last of the 50 epochs
FitEpoch ==
    /\ fit = "running"
    /\ \E current \in 0..MaxAcc :
        LET e == epoch + 1
            save == McShouldSave(current, mc_best)
            improved == EsImproved(current, es_best)
            wait == IF improved THEN 0 ELSE es_wait + 1
            stop == EsShouldStop(wait)
        IN  /\ epoch' = e
            /\ val_accuracy_sim' = current
            /\ mc_best' = IF save THEN current ELSE mc_best
            /\ checkpoint_epoch' = IF save THEN e ELSE checkpoint_epoch
            /\ checkpoint_acc' = IF save THEN current ELSE checkpoint_acc
            /\ es_best' = IF improved THEN current ELSE es_best
            /\ es_wait' = wait
            /\ stop_training' = stop
            /\ fit' = IF stop \/ e >= Epochs THEN "done" ELSE "running"
            /\ hist_max' = Max(hist_max, current)
            /\ hist_best_epoch' = IF current > hist_max THEN e
                                                       ELSE hist_best_epoch
            /\ hist_stale' = IF current > hist_max THEN 0 ELSE hist_stale + 1
    /\ UNCHANGED <<mc_op, es_auto, es_op, loaded_epoch, exceptTrain>>

\* model = load_model("siamese_checkpoint", ...)
LoadModel ==
    /\ fit = "done"
    /\ loaded_epoch = 0
    /\ checkpoint_epoch # 0
    /\ loaded_epoch' = checkpoint_epoch
    /\ UNCHANGED <<fit, epoch, val_accuracy_sim, stop_training, mc_op, mc_best,
                   checkpoint_epoch, checkpoint_acc, es_auto, es_op, es_best,
                   es_wait, hist_max, hist_best_epoch, hist_stale, exceptTrain>>

TrainNext == FitBegin \/ FitEpoch \/ LoadModel

SpecTrain == TrainInit /\ [][TrainNext]_vars

\* C9: after every epoch "siamese_checkpoint" holds the model of the epoch
\* with the highest val_accuracy_sim so far (the first epoch that reached it:
\* an improving epoch overwrites the file, any other leaves it), and the model
\* loaded after training is that one.
C9_CheckpointIsBest ==
    /\ epoch >= 1 =>
          /\ checkpoint_epoch = hist_best_epoch
          /\ checkpoint_acc = hist_max
    /\ loaded_epoch # 0 => loaded_epoch = hist_best_epoch

\* the loaded model is not the last epoch's, which validated worse
C9_Witness ==
    /\ fit = "done"
    /\ loaded_epoch # 0 /\ loaded_epoch < epoch
    /\ val_accuracy_sim < hist_max

\* C10: training stops at the first epoch at which val_accuracy_sim has
\* failed to improve for 5 consecutive epochs, and otherwise after 50 epochs:
\* it never runs past such an epoch, and never stops before epoch 50 while
\* one of the last 5 epochs improved.
C10_StopsAfterPatience ==
    /\ epoch <= Epochs
    /\ (fit = "running" /\ epoch >= 1) => (hist_stale < Patience /\ epoch < Epochs)
    /\ fit = "done" => (epoch = Epochs \/ hist_stale >= Patience)

-----------------------------------------------------------------------------
(* Retrieval (cells 53, 56, 59) *)

\* the most rows the embedding table has, and the largest topn passed
MaxEmb == 3
MaxTopn == 2

\* the default topn of most_sim
DefaultTopn == 4

\* Embeddings are vectors of integers. A normalized vector is stored in
\* units of 1/UnitScale, so a dot product of two of them is in units of
\* 1/UnitScale^2 and the similarity 1.0 is One.
UnitScale == 5
One == UnitScale * UnitScale

\* what shared_conv can output for an image: non-zero vectors whose norm is
\* a whole number (of norm 5 and of norm 10)
RawVectors ==
    {<<5, 0>>, <<0, 5>>, <<3, 4>>, <<4, 3>>, <<-3, -4>>,
     <<10, 0>>, <<6, 8>>, <<-6, -8>>}

\* np.dot of two vectors
Dot(u, v) == Sum([i \in DOMAIN u |-> u[i] * v[i]])

\* np.linalg.norm(v)
Norm(v) == CHOOSE r \in 0..Dot(v, v) : r * r = Dot(v, v)

\* emb / np.linalg.norm(emb, axis=-1, keepdims=True), one row
Normalize(v) == [i \in DOMAIN v |-> (v[i] * UnitScale) \div Norm(v)]

\* np.dot(emb, x): one similarity per row
Sims(table, x) == [i \in DOMAIN table |-> Dot(table[i], x)]

\* np.argsort(sims): the ids in ascending order of sims; the default sort is
\* not stable, so equal values come in any order
ArgSortNot(sims) == {[i \in DOMAIN sims |-> i - 1]}
ArgSort(sims) ==
    {[i \in DOMAIN sims |-> p[i] - 1] : p \in
        {p \in Permutations(DOMAIN sims) :
            \A i \in 1..(Len(sims) - 1) : sims[p[i]] <= sims[p[i + 1]]}}

\* ids[::-1]
ReversedNot(lst) == lst
Reversed(lst) == [i \in DOMAIN lst |-> lst[Len(lst) + 1 - i]]

\* the lists most_sim(x, emb, topn) can return
most_sim(x, table, topn) ==
    LET sims == Sims(table, x)
    IN  {LET top == SliceTo(Reversed(ids), topn)
         IN  [i \in DOMAIN top |-> <<top[i], sims[top[i] + 1]>>] :
            ids \in ArgSort(sims)}

SimInit ==
    /\ NotIndexed(<<>>, TRUE)
    /\ NoCall /\ NoData /\ NoGen /\ NoTrain /\ NoSim
    /\ SetupRan

\* emb = shared_conv(all_imgs); emb = emb / norm
ComputeEmb ==
    /\ emb = <<>>
    /\ \E m \in 1..MaxEmb : \E raw \in [1..m -> RawVectors] :
          emb' = [i \in 1..m |-> Normalize(raw[i])]
    /\ UNCHANGED <<sim, query_id, sim_x, sim_topn, sim_ret, exceptSim>>

\* most_sim(emb[query_id], emb), the query being a stored image
QueryStored ==
    /\ emb # <<>> /\ sim = "None"
    /\ \E q \in 0..(Len(emb) - 1) :
          /\ sim' = "stored"
          /\ query_id' = q
          /\ sim_x' = emb[q + 1]
          /\ sim_topn' = DefaultTopn
          /\ sim_ret' \in most_sim(emb[q + 1], emb, DefaultTopn)
    /\ UNCHANGED <<emb, exceptSim>>

\* most_sim(my_emb, emb) for the normalized embedding of any image
QueryImage ==
    /\ emb # <<>> /\ sim = "None"
    /\ \E raw \in RawVectors, topn \in (0..MaxTopn) \cup {DefaultTopn} :
          /\ sim' = "image"
          /\ query_id' = 0
          /\ sim_x' = Normalize(raw)
          /\ sim_topn' = topn
          /\ sim_ret' \in most_sim(Normalize(raw), emb, topn)
    /\ UNCHANGED <<emb, exceptSim>>

\* the calling cell has shown the matches
QueryDone ==
    /\ sim # "None"
    /\ sim' = "None" /\ query_id' = 0 /\ sim_x' = <<>> /\ sim_topn' = 0
    /\ sim_ret' = <<>>
    /\ UNCHANGED <<emb, exceptSim>>

SimNext == ComputeEmb \/ QueryStored \/ QueryImage \/ QueryDone

SpecSim == SimInit /\ [][SimNext]_vars

\* C5 as claimed: for every stored image q, most_sim(emb[q], emb) returns q
\* first, with similarity 1.0, for every table of unit embeddings, also when
\* another image has the embedding of q.
C5_QueryIsFirst ==
    sim = "stored" =>
        /\ sim_ret # <<>>
        /\ sim_ret[1][1] = query_id
        /\ sim_ret[1][2] = One

\* C5 as amended: the first result has similarity 1.0 and the embedding of
\* q, and it is q itself whenever no other image has the embedding of q.
C5_QueryIsFirstAmongDistinct ==
    sim = "stored" =>
        /\ sim_ret # <<>>
        /\ sim_ret[1][2] = One
        /\ emb[sim_ret[1][1] + 1] = emb[query_id + 1]
        /\ (\A j \in DOMAIN emb : j # query_id + 1 => emb[j] # emb[query_id + 1])
              => sim_ret[1][1] = query_id

\* three distinct embeddings, the query is the middle one and comes first
C5_Witness ==
    /\ sim = "stored"
    /\ Len(emb) = 3 /\ query_id = 1
    /\ \A i, j \in DOMAIN emb : i # j => emb[i] # emb[j]
    /\ sim_ret[1][1] = 1

\* the ids of a result list
ResultIds(lst) == {lst[i][1] : i \in DOMAIN lst}

\* C11: most_sim(x, emb, topn) with topn >= 0 and M rows returns min(topn, M)
\* entries with pairwise distinct ids, each with the dot product of its row
\* and x, in non-increasing order of score, and no id left out scores
\* strictly higher than an id of the result.
C11_TopNByScore ==
    sim # "None" =>
        /\ Len(sim_ret) = Min(sim_topn, Len(emb))
        /\ \A i, j \in DOMAIN sim_ret : i # j => sim_ret[i][1] # sim_ret[j][1]
        /\ \A i \in DOMAIN sim_ret :
              /\ sim_ret[i][1] \in 0..(Len(emb) - 1)
              /\ sim_ret[i][2] = Dot(emb[sim_ret[i][1] + 1], sim_x)
        /\ \A i \in 1..(Len(sim_ret) - 1) : sim_ret[i][2] >= sim_ret[i + 1][2]
        /\ \A j \in (0..(Len(emb) - 1)) \ ResultIds(sim_ret) :
              \A i \in DOMAIN sim_ret : Dot(emb[j + 1], sim_x) <= sim_ret[i][2]

\* the top 2 of 3 rows with three different scores, the best row being the
\* last of the table
C11_Witness ==
    /\ sim = "image" /\ sim_topn = 2 /\ Len(emb) = 3
    /\ Len(sim_ret) = 2
    /\ sim_ret[1][1] = 2
    /\ sim_ret[1][2] > sim_ret[2][2]
    /\ \E j \in (0..2) \ ResultIds(sim_ret) : Dot(emb[j + 1], sim_x) < sim_ret[2][2]

-----------------------------------------------------------------------------
(* The download / extract cell (cell 2) *)

\* how often the cell is started
MaxRuns == 5

\* what urlretrieve(URL, FILENAME) can leave of FILENAME: the whole archive;
\* or, when it raises, no file (the URL could not be opened) or the first
\* part of the file
UrlretrieveOutcomes == {"complete", "absent", "partial"}

\* op.exists(FILENAME), op.exists("lfw")
ArchiveExists == archive # "absent"
LfwExists == lfw_exists

SetupInit ==
    /\ archive = "absent" /\ lfw_exists = FALSE /\ lfw_members = 0
    /\ setup = "idle" /\ runs = 0
    /\ did_download = FALSE /\ did_extract = FALSE
    /\ archive_before = "absent" /\ lfw_before = FALSE /\ members_before = 0
    /\ NotIndexed(<<>>, TRUE)
    /\ NoCall /\ NoData /\ NoGen /\ NoTrain /\ NoSim

\* the cell is started (again): nothing of an earlier run is kept but the files
SetupBegin ==
    /\ setup \in {"idle", "done", "error"}
    /\ runs < MaxRuns
    /\ setup' = "start" /\ runs' = runs + 1
    /\ did_download' = FALSE /\ did_extract' = FALSE
    /\ archive_before' = archive /\ lfw_before' = lfw_exists
    /\ members_before' = lfw_members
    /\ UNCHANGED <<archive, lfw_exists, lfw_members, exceptSetup>>

\* if not op.exists(FILENAME): urlretrieve(URL, FILENAME, ...)
SetupDownload ==
    /\ setup = "start" /\ ~ArchiveExists
    /\ did_download' = TRUE
    /\ \E outcome \in UrlretrieveOutcomes :
          /\ archive' = outcome
          /\ setup' = IF outcome = "complete" THEN "archive_checked" ELSE "error"
    /\ UNCHANGED <<lfw_exists, lfw_members, runs, did_extract, archive_before,
                   lfw_before, members_before, exceptSetup>>

\* op.exists(FILENAME) holds: no download
SetupSkipDownload ==
    /\ setup = "start" /\ ArchiveExists
    /\ setup' = "archive_checked"
    /\ UNCHANGED <<archive, lfw_exists, lfw_members, runs, did_download,
                   did_extract, archive_before, lfw_before, members_before,
                   exceptSetup>>

\* if not op.exists("lfw"): tarfile.open(...), tar.getmembers(); a file that
\* is only the first part of the archive makes this raise
SetupOpenArchive ==
    /\ setup = "archive_checked" /\ ~LfwExists
    /\ did_extract' = TRUE
    /\ setup' = IF archive = "complete" THEN "extracting" ELSE "error"
    /\ UNCHANGED <<archive, lfw_exists, lfw_members, runs, did_download,
                   archive_before, lfw_before, members_before, exceptSetup>>

\* op.exists("lfw") holds: no extraction
SetupSkipExtract ==
    /\ setup = "archive_checked" /\ LfwExists
    /\ setup' = "done"
    /\ UNCHANGED <<archive, lfw_exists, lfw_members, runs, did_download,
                   did_extract, archive_before, lfw_before, members_before,
                   exceptSetup>>

\* tar.extract(member, "lfw") for the next member
SetupExtractMember ==
    /\ setup = "extracting" /\ lfw_members < NumMembers
    /\ lfw_exists' = TRUE /\ lfw_members' = lfw_members + 1
    /\ UNCHANGED <<archive, setup, runs, did_download, did_extract,
                   archive_before, lfw_before, members_before, exceptSetup>>

\* tar.extract raises (the disk is full, the kernel is interrupted) after
\* at least one member: the error ends the cell
SetupExtractFails ==
    /\ setup = "extracting" /\ lfw_exists /\ lfw_members < NumMembers
    /\ setup' = "error"
    /\ UNCHANGED <<archive, lfw_exists, lfw_members, runs, did_download,
                   did_extract, archive_before, lfw_before, members_before,
                   exceptSetup>>

\* the loop over tar.getmembers() ends; print("Done!")
SetupExtractEnd ==
    /\ setup = "extracting" /\ lfw_members = NumMembers
    /\ setup' = "done"
    /\ UNCHANGED <<archive, lfw_exists, lfw_members, runs, did_download,
                   did_extract, archive_before, lfw_before, members_before,
                   exceptSetup>>

SetupNext ==
    \/ SetupBegin
    \/ SetupDownload
    \/ SetupSkipDownload
    \/ SetupOpenArchive
    \/ SetupSkipExtract
    \/ SetupExtractMember
    \/ SetupExtractFails
    \/ SetupExtractEnd

SpecSetup == SetupInit /\ [][SetupNext]_vars

\* C12: the cell downloads iff the archive file was absent and extracts iff
\* the directory "lfw" was absent; whenever it completes, the archive and the
\* whole extracted tree are present, whatever files an earlier run left
\* (also one that failed during download or extraction); a run on a complete
\* state changes nothing.
C12_SetupLeavesWholeTree ==
    setup = "done" =>
        /\ did_download <=> archive_before = "absent"
        /\ did_extract <=> ~lfw_before
        /\ archive = "complete"
        /\ lfw_exists /\ lfw_members = NumMembers
        /\ (archive_before = "complete" /\ lfw_before
                /\ members_before = NumMembers)
              => (~did_download /\ ~did_extract)

====
